---- MODULE Spec2Model ----
(***************************************************************************)
(* Model of vibectl/run, src/src/main.ts: the SSE line framer              *)
(* (parseSSELines), the event state machine (processSSEEvent), the stream  *)
(* orchestrator (streamTaskOutput) with its timeout timer, and the action  *)
(* entry point run() with its error sanitizer.                             *)
(*                                                                         *)
(* Texts are TLA+ strings, handled character by character with Len,        *)
(* SubSeq and \o, so that split('\n'), startsWith, substring, trim and the *)
(* Bearer regular expression are computed as the code computes them.       *)
(* An optional value (undefined / null) is a set with at most one element. *)
(***************************************************************************)
EXTENDS Integers, Sequences, FiniteSets, TLC

(***************************************************************************)
(* Bounds of the model.                                                    *)
(***************************************************************************)
\* largest number of event blocks in the SSE text the server sends
MaxBlocks == 2
\* largest number of chunks the transport cuts that text into
MaxChunks == 2
\* largest number of lines in a text handed to parseSSELines directly
MaxLines == 3
\* largest number of tokens in a message handed to the error sanitizer
MaxTokens == 4

(***************************************************************************)
(* Optional values.                                                        *)
(***************************************************************************)
None == {}
Some(v) == {v}
Get(o) == CHOOSE v \in o : TRUE

(***************************************************************************)
(* String primitives of the JavaScript runtime.                            *)
(***************************************************************************)
\* s.substring(n): the text after the first n characters
Substring(s, n) == SubSeq(s, n + 1, Len(s))

\* s.startsWith(p)
StartsWith(s, p) == Len(s) >= Len(p) /\ SubSeq(s, 1, Len(p)) = p

EndsWith(s, p) == Len(s) >= Len(p) /\ SubSeq(s, Len(s) - Len(p) + 1, Len(s)) = p

\* s.includes(p)
Includes(s, p) == \E i \in 1..(Len(s) - Len(p) + 1) : SubSeq(s, i, i + Len(p) - 1) = p

\* the characters the regular expression class \s and trim() treat as white space
IsSpace(c) == c \in {" ", "\t", "\n", "\r"}

\* the character at position i of s is white space
SpaceAt(s, i) == IsSpace(SubSeq(s, i, i))

\* s.trim(): from the first to the last character that is no white space
Trim(s) ==
  LET solid == {i \in 1..Len(s) : ~SpaceAt(s, i)}
  IN  IF solid = {} THEN ""
      ELSE SubSeq(s, CHOOSE i \in solid : \A j \in solid : i <= j,
                     CHOOSE i \in solid : \A j \in solid : i >= j)

\* s.indexOf(c): the first position of the character c in s, 0 when there is none
IndexOf(s, c) ==
  LET at == {i \in 1..Len(s) : SubSeq(s, i, i) = c}
  IN  IF at = {} THEN 0 ELSE CHOOSE i \in at : \A j \in at : i <= j

\* s.split('\n'): the pieces between newlines; never empty, "" gives <<"">>
RECURSIVE SplitLines(_)
SplitLines(s) ==
  LET k == IndexOf(s, "\n")
  IN  IF k = 0 THEN <<s>>
      ELSE <<SubSeq(s, 1, k - 1)>> \o SplitLines(Substring(s, k))

(***************************************************************************)
(* JSON.parse, on the payload grammar of the wire format: null, {}, a      *)
(* digit, a quoted string, and objects with the one field "data", "error"  *)
(* (a string without quote or backslash) or "costUsd" (a digit).  Any      *)
(* other text is not JSON of this grammar and makes JSON.parse throw.      *)
(***************************************************************************)
Digits == {"0", "1", "2", "3", "4", "5", "6", "7", "8", "9"}

DigitValue(d) == CHOOSE n \in 0..9 : ToString(n) = d

PlainText(s) == \A i \in 1..Len(s) : SubSeq(s, i, i) \notin {"\"", "\\", "\n", "\r", "\t"}

\* the text between prefix p and suffix q of s
Between(s, p, q) == SubSeq(s, Len(p) + 1, Len(s) - Len(q))

IsStringField(s, key) ==
  LET p == "{\"" \o key \o "\":\""
  IN  /\ StartsWith(s, p) /\ EndsWith(s, "\"}") /\ Len(s) >= Len(p) + 2
      /\ PlainText(Between(s, p, "\"}"))

StringField(s, key) == Between(s, "{\"" \o key \o "\":\"", "\"}")

IsCostField(s) ==
  /\ StartsWith(s, "{\"costUsd\":") /\ EndsWith(s, "}")
  /\ Between(s, "{\"costUsd\":", "}") \in Digits

JSONObject(data, costUsd, error) ==
  [kind |-> "object", data |-> data, costUsd |-> costUsd, error |-> error]

JSONvalue(s) ==
  IF s = "null" THEN [kind |-> "null", data |-> None, costUsd |-> None, error |-> None]
  ELSE IF s = "{}" THEN JSONObject(None, None, None)
  ELSE IF IsStringField(s, "data") THEN JSONObject(Some(StringField(s, "data")), None, None)
  ELSE IF IsStringField(s, "error") THEN JSONObject(None, None, Some(StringField(s, "error")))
  ELSE IF IsCostField(s) THEN
    JSONObject(None, Some(DigitValue(Between(s, "{\"costUsd\":", "}"))), None)
  ELSE IF s \in Digits
          \/ (Len(s) >= 2 /\ StartsWith(s, "\"") /\ EndsWith(s, "\"")
              /\ PlainText(SubSeq(s, 2, Len(s) - 1)))
    THEN [kind |-> "primitive", data |-> None, costUsd |-> None, error |-> None]
  ELSE [kind |-> "invalid", data |-> None, costUsd |-> None, error |-> None]

\* a parser that takes any text that is not JSON for the empty object
JSONparseLenient(text) ==
  IF JSONvalue(Trim(text)).kind = "invalid" THEN JSONObject(None, None, None)
  ELSE JSONvalue(Trim(text))

\* JSON.parse(text): white space around the value is skipped
JSONparse(text) == JSONvalue(Trim(text))

(***************************************************************************)
(* StreamState and processSSEEvent.                                        *)
(***************************************************************************)
\* the fresh StreamState of streamTaskOutput
InitialState == [outputBuffer |-> "", status |-> "unknown", error |-> None, costUsd |-> None]

\* event.error || 'Unknown error'
ErrorOrUnknown(error) == IF error # None /\ Get(error) # "" THEN Get(error) ELSE "Unknown error"

\* The outcome of a step over a StreamState: the state as mutated, whether a
\* fault (a TypeError on a property of null) was thrown out of the step, the
\* messages handed to core.error in order, and the events dispatched in order
\* (each with the state as it was once the event was processed).
Step(st, threw, errors, events) ==
  [st |-> st, threw |-> threw, errors |-> errors, events |-> events]

\* an event machine whose complete event also clears the error
processSSEEventCompleteClearsError(eventType, eventData, state) ==
  LET event == JSONparse(eventData)
      isNull == event.kind = "null"
  IN  IF event.kind = "invalid" THEN Step(state, FALSE, <<>>, <<>>)
      ELSE IF eventType = "start" THEN Step(state, FALSE, <<>>, <<>>)
      ELSE IF eventType = "stdout" THEN
        IF isNull THEN Step(state, TRUE, <<>>, <<>>)
        ELSE IF event.data # None /\ Get(event.data) # ""
          THEN Step([state EXCEPT !.outputBuffer = @ \o Get(event.data)], FALSE, <<>>, <<>>)
          ELSE Step(state, FALSE, <<>>, <<>>)
      ELSE IF eventType = "stderr" THEN Step(state, isNull, <<>>, <<>>)
      ELSE IF eventType = "complete" THEN
        LET s1 == [state EXCEPT !.status = "completed", !.error = None]
        IN  IF isNull THEN Step(s1, TRUE, <<>>, <<>>)
            ELSE IF event.costUsd # None
              THEN Step([s1 EXCEPT !.costUsd = event.costUsd], FALSE, <<>>, <<>>)
              ELSE Step(s1, FALSE, <<>>, <<>>)
      ELSE IF eventType = "error" THEN
        LET s1 == [state EXCEPT !.status = "failed"]
            s2 == [s1 EXCEPT !.error = Some(ErrorOrUnknown(event.error))]
        IN  IF isNull THEN Step(s1, TRUE, <<>>, <<>>)
            ELSE Step(s2, FALSE, <<"[Stream] Task failed: " \o Get(s2.error)>>, <<>>)
      ELSE Step(state, FALSE, <<>>, <<>>)

\* processSSEEvent(eventType, eventData, state): the outcome over the state
processSSEEvent(eventType, eventData, state) ==
  LET event == JSONparse(eventData)
      isNull == event.kind = "null"
  IN  IF event.kind = "invalid" THEN Step(state, FALSE, <<>>, <<>>)
      ELSE IF eventType = "start" THEN Step(state, FALSE, <<>>, <<>>)
      ELSE IF eventType = "stdout" THEN
        IF isNull THEN Step(state, TRUE, <<>>, <<>>)
        ELSE IF event.data # None /\ Get(event.data) # ""
          THEN Step([state EXCEPT !.outputBuffer = @ \o Get(event.data)], FALSE, <<>>, <<>>)
          ELSE Step(state, FALSE, <<>>, <<>>)
      ELSE IF eventType = "stderr" THEN Step(state, isNull, <<>>, <<>>)
      ELSE IF eventType = "complete" THEN
        LET s1 == [state EXCEPT !.status = "completed"]
        IN  IF isNull THEN Step(s1, TRUE, <<>>, <<>>)
            ELSE IF event.costUsd # None
              THEN Step([s1 EXCEPT !.costUsd = event.costUsd], FALSE, <<>>, <<>>)
              ELSE Step(s1, FALSE, <<>>, <<>>)
      ELSE IF eventType = "error" THEN
        LET s1 == [state EXCEPT !.status = "failed"]
            s2 == [s1 EXCEPT !.error = Some(ErrorOrUnknown(event.error))]
        IN  IF isNull THEN Step(s1, TRUE, <<>>, <<>>)
            ELSE Step(s2, FALSE, <<"[Stream] Task failed: " \o Get(s2.error)>>, <<>>)
      ELSE Step(state, FALSE, <<>>, <<>>)

(***************************************************************************)
(* parseSSELines.                                                          *)
(***************************************************************************)
\* the for loop without the reset of the event type behind a data line
RECURSIVE ProcessLinesKeepsType(_, _, _, _)
ProcessLinesKeepsType(lines, i, eventType, acc) ==
  IF i > Len(lines) \/ acc.threw THEN acc
  ELSE LET line == lines[i]
       IN  IF StartsWith(line, "event: ")
             THEN ProcessLinesKeepsType(lines, i + 1, Trim(Substring(line, 7)), acc)
           ELSE IF StartsWith(line, "data: ")
             THEN LET eventData == Substring(line, 6)
                      r == processSSEEvent(eventType, eventData, acc.st)
                  IN  ProcessLinesKeepsType(lines, i + 1, eventType,
                        Step(r.st, r.threw, acc.errors \o r.errors,
                             Append(acc.events, [type |-> eventType, data |-> eventData,
                                                 after |-> r.st])))
           ELSE ProcessLinesKeepsType(lines, i + 1, eventType, acc)

\* the for loop over the complete lines, from line i on, with the pending
\* event type and the outcome accumulated so far
RECURSIVE ProcessLines(_, _, _, _)
ProcessLines(lines, i, eventType, acc) ==
  IF i > Len(lines) \/ acc.threw THEN acc
  ELSE LET line == lines[i]
       IN  IF StartsWith(line, "event: ")
             THEN ProcessLines(lines, i + 1, Trim(Substring(line, 7)), acc)
           ELSE IF StartsWith(line, "data: ")
             THEN LET eventData == Substring(line, 6)
                      r == processSSEEvent(eventType, eventData, acc.st)
                  IN  ProcessLines(lines, i + 1, "",
                        Step(r.st, r.threw, acc.errors \o r.errors,
                             Append(acc.events, [type |-> eventType, data |-> eventData,
                                                 after |-> r.st])))
           ELSE ProcessLines(lines, i + 1, eventType, acc)

\* a framer that hands back no carry-over
parseSSELinesDropsRemainder(buffer, state) ==
  LET all == SplitLines(buffer)
      lines == SubSeq(all, 1, Len(all) - 1)
      r == ProcessLines(lines, 1, "", Step(state, FALSE, <<>>, <<>>))
  IN  [remainder |-> "", st |-> r.st, threw |-> r.threw,
       errors |-> r.errors, events |-> r.events]

\* parseSSELines(buffer, state): the outcome over the state and the remainder
parseSSELines(buffer, state) ==
  LET all == SplitLines(buffer)
      lines == SubSeq(all, 1, Len(all) - 1)
      remainder == all[Len(all)]
      r == ProcessLines(lines, 1, "", Step(state, FALSE, <<>>, <<>>))
  IN  [remainder |-> remainder, st |-> r.st, threw |-> r.threw,
       errors |-> r.errors, events |-> r.events]


(***************************************************************************)
(* The error sanitizer of run(): message.replace(/Bearer\s+[^\s]+/gi,      *)
(* 'Bearer ***').                                                          *)
(***************************************************************************)
UpperCase == "ABCDEFGHIJKLMNOPQRSTUVWXYZ"
LowerCase == "abcdefghijklmnopqrstuvwxyz"

\* the lower-case form of one character (the i flag of the expression)
LowerChar(c) ==
  IF \E i \in 1..26 : SubSeq(UpperCase, i, i) = c
    THEN LET i == CHOOSE i \in 1..26 : SubSeq(UpperCase, i, i) = c IN SubSeq(LowerCase, i, i)
    ELSE c

\* s and t are equal when letter case is ignored
SameIgnoringCase(s, t) ==
  /\ Len(s) = Len(t)
  /\ \A i \in 1..Len(s) : LowerChar(SubSeq(s, i, i)) = LowerChar(SubSeq(t, i, i))

\* length of the longest run of characters at the start of s that are
\* white space (space = TRUE) or not white space (space = FALSE)
RunLength(s, space) ==
  LET stop == {i \in 1..Len(s) : SpaceAt(s, i) # space}
  IN  IF stop = {} THEN Len(s) ELSE (CHOOSE i \in stop : \A j \in stop : i <= j) - 1

\* length of the match of /Bearer\s+[^\s]+/i at the start of s, 0 when none
BearerMatch(s) ==
  IF Len(s) >= 6 /\ SameIgnoringCase(SubSeq(s, 1, 6), "Bearer")
    THEN LET ws == RunLength(Substring(s, 6), TRUE)
             tok == RunLength(Substring(s, 6 + ws), FALSE)
         IN  IF ws >= 1 /\ tok >= 1 THEN 6 + ws + tok ELSE 0
    ELSE 0

\* a replacement that masks in front of the token and leaves the token
RECURSIVE SanitizeKeepsToken(_)
SanitizeKeepsToken(message) ==
  LET starts == {i \in 1..Len(message) : BearerMatch(Substring(message, i - 1)) > 0}
  IN  IF starts = {} THEN message
      ELSE LET p == CHOOSE i \in starts : \A j \in starts : i <= j
               m == BearerMatch(Substring(message, p - 1))
               ws == RunLength(Substring(message, p + 5), TRUE)
           IN  SubSeq(message, 1, p - 1) \o "Bearer *** "
                 \o SubSeq(message, p + 6 + ws, p - 1 + m)
                 \o SanitizeKeepsToken(Substring(message, p - 1 + m))

\* the global replacement: the leftmost match is replaced and the scan goes
\* on behind it
RECURSIVE Sanitize(_)
Sanitize(message) ==
  LET starts == {i \in 1..Len(message) : BearerMatch(Substring(message, i - 1)) > 0}
  IN  IF starts = {} THEN message
      ELSE LET p == CHOOSE i \in starts : \A j \in starts : i <= j
               m == BearerMatch(Substring(message, p - 1))
           IN  SubSeq(message, 1, p - 1) \o "Bearer ***"
                 \o Sanitize(Substring(message, p - 1 + m))

(***************************************************************************)
(* TextDecoder.decode(value, {stream: true}).  The transport delivers      *)
(* bytes; a character of the model's texts is one ASCII byte, except the   *)
(* two-byte character written "^~" on the wire (lead byte "^",             *)
(* continuation byte "~"), which decodes to "@".  A lead byte at the end   *)
(* of a chunk is held back until the next chunk; a malformed sequence      *)
(* decodes to the replacement character, written "?".                      *)
(***************************************************************************)
RECURSIVE DecodeBytes(_)
DecodeBytes(bytes) ==
  LET multi == {i \in 1..Len(bytes) : SubSeq(bytes, i, i) \in {"^", "~"}}
  IN  IF multi = {} THEN [text |-> bytes, held |-> ""]
      ELSE LET k == CHOOSE i \in multi : \A j \in multi : i <= j
               ascii == SubSeq(bytes, 1, k - 1)
           IN  IF SubSeq(bytes, k, k) = "~" THEN
                 \* a continuation byte without lead byte
                 LET r == DecodeBytes(Substring(bytes, k))
                 IN  [text |-> ascii \o "?" \o r.text, held |-> r.held]
               ELSE IF k = Len(bytes) THEN
                 \* a lead byte at the end: held back
                 [text |-> ascii, held |-> "^"]
               ELSE IF SubSeq(bytes, k + 1, k + 1) = "~" THEN
                 LET r == DecodeBytes(Substring(bytes, k + 1))
                 IN  [text |-> ascii \o "@" \o r.text, held |-> r.held]
               ELSE
                 \* a lead byte without continuation byte
                 LET r == DecodeBytes(Substring(bytes, k))
                 IN  [text |-> ascii \o "?" \o r.text, held |-> r.held]

\* decoder.decode(value, {stream: true}) with the bytes held back so far
decode(held, value) == DecodeBytes(held \o value)

(***************************************************************************)
(* The inputs of the model: what the configuration, the submission         *)
(* endpoint and the stream endpoint can answer.                            *)
(***************************************************************************)
\* the api-key input
ApiKey == "s3cr3t"

\* the timeout input, in seconds
TimeoutSeconds == {1, 2}

\* one event of the wire format: an event line and its data line
Event(type, payload) == "event: " \o type \o "\ndata: " \o payload \o "\n"

\* the blocks SSE texts are made of: stdout, complete and error events, a
\* payload with a two-byte character, a null payload, a payload that is not
\* JSON, a data line without event line, a blank separator, and an event
\* whose data line is not terminated
Blocks ==
  { Event("stdout", "{\"data\":\"a\"}"),
    Event("stdout", "{\"data\":\"^~\"}"),
    Event("stdout", "null"),
    Event("stdout", "{x"),
    Event("complete", "{\"costUsd\":1}"),
    Event("complete", "{\"costUsd\":2}"),
    Event("error", "{\"error\":\"Bearer " \o ApiKey \o "\"}"),
    Event("error", "{}"),
    "data: {\"data\":\"b\"}\n",
    "\n",
    "event: complete\ndata: {}" }

\* the texts of at most n blocks
RECURSIVE TextsOf(_)
TextsOf(n) ==
  IF n = 0 THEN {""}
  ELSE LET shorter == TextsOf(n - 1)
       IN  shorter \cup {t \o b : t \in shorter, b \in Blocks}

Texts == TextsOf(MaxBlocks)

\* the answers of the submission endpoint (http.postJson): a rejection with
\* a message, or a response with a status code and a body
Submissions ==
  { [kind |-> "reject", statusCode |-> 0, error |-> None, task_id |-> None,
     message |-> "Request failed with Bearer " \o ApiKey \o " in header"],
    [kind |-> "reject", statusCode |-> 0, error |-> None, task_id |-> None,
     message |-> "connect ECONNREFUSED"],
    [kind |-> "response", statusCode |-> 401, error |-> Some("Invalid API key"),
     task_id |-> None, message |-> ""],
    [kind |-> "response", statusCode |-> 500, error |-> None, task_id |-> None, message |-> ""],
    [kind |-> "response", statusCode |-> 200, error |-> None, task_id |-> None, message |-> ""],
    [kind |-> "response", statusCode |-> 200, error |-> None, task_id |-> Some("task-1"),
     message |-> ""] }

\* the error field of a degraded JSON body: absent, a string, or an object
\* with an optional message
JsonErrors ==
  { [kind |-> "absent", text |-> None],
    [kind |-> "string", text |-> Some("task not found")],
    [kind |-> "string", text |-> Some("")],
    [kind |-> "object", text |-> Some("detailed error")],
    [kind |-> "object", text |-> Some("")],
    [kind |-> "object", text |-> None] }

\* the answers of the stream endpoint (fetch): a non-success response with a
\* body text, a JSON-typed response, or an event stream sending an SSE text
Responses ==
  { [ok |-> FALSE, status |-> 401, contentType |-> "text/plain",
     body |-> "Unauthorized", json |-> [kind |-> "absent", text |-> None]],
    [ok |-> FALSE, status |-> 403, contentType |-> "text/plain",
     body |-> "rejected Bearer " \o ApiKey, json |-> [kind |-> "absent", text |-> None]] }
  \cup { [ok |-> TRUE, status |-> 200, contentType |-> "application/json; charset=utf-8",
          body |-> "", json |-> e] : e \in JsonErrors }
  \cup { [ok |-> TRUE, status |-> 200, contentType |-> "text/event-stream",
          body |-> t, json |-> [kind |-> "absent", text |-> None]] : t \in Texts }

(***************************************************************************)
(* The state of one run of the action.                                     *)
(***************************************************************************)
VARIABLES
  pc,          \* where run() / streamTaskOutput is suspended: "submit" (await
               \* http.postJson), "fetch" (await fetch), "text" (await
               \* response.text()), "json" (await response.json()), "read"
               \* (await reader.read()), "returned" / "thrown" (the call of
               \* streamTaskOutput has settled, run() not yet resumed), "exit"
  timeoutMs,   \* the timeoutMs argument of streamTaskOutput
  timer,       \* timeoutId: "none", "armed", "fired" or "cleared"
  aborted,     \* controller.signal.aborted
  conn,        \* the connection of the stream response: "none", "open", "closed"
  response,    \* the response fetch resolved with
  remaining,   \* the bytes of the body the transport has not delivered yet
  chunks,      \* number of chunks delivered by reader.read()
  reads,       \* number of calls of reader.read()
  held,        \* the bytes the TextDecoder holds back between chunks
  buffer,      \* the local buffer of the read loop
  state,       \* the StreamState
  trace,       \* the status held after each event dispatched so far, in order
  dispatched,  \* the calls of processSSEEvent so far, in order: event type, raw
               \* data, and the state after the call
  path,        \* the exit path streamTaskOutput took: "none", "terminal",
               \* "eof", "json", "timeout" or "fault"
  result,      \* the StreamResult returned (None until then)
  fault,       \* the fault thrown by streamTaskOutput (None until then): its
               \* name, its message, and where it arose ("transport", "response",
               \* "body", or "payload" for a fault of the event processing)
  coreErrors,  \* the messages handed to core.error, in order
  setFailed,   \* the messages handed to core.setFailed, in order
  outputs      \* the values handed to core.setOutput

vars == <<pc, timeoutMs, timer, aborted, conn, response, remaining, chunks, reads, held,
          buffer, state, trace, dispatched, path, result, fault, coreErrors, setFailed,
          outputs>>

streamVars == <<response, remaining, chunks, reads, held, buffer, state, trace, dispatched>>

\* what lives as long as the read loop does: the body stream, the decoder
\* and the buffer
loopVars == <<remaining, held, buffer>>
runVars == <<coreErrors, setFailed, outputs>>

NoResponse ==
  [ok |-> FALSE, status |-> 0, contentType |-> "", body |-> "",
   json |-> [kind |-> "absent", text |-> None]]

NoOutputs == [taskId |-> None, result |-> None, output |-> None, costUsd |-> None]

Init ==
  /\ pc = "submit"
  /\ timeoutMs \in {s * 1000 : s \in TimeoutSeconds}
  /\ timer = "none"
  /\ aborted = FALSE
  /\ conn = "none"
  /\ response = NoResponse
  /\ remaining = ""
  /\ chunks = 0
  /\ reads = 0
  /\ held = ""
  /\ buffer = ""
  /\ state = InitialState
  /\ trace = <<>>
  /\ dispatched = <<>>
  /\ path = "none"
  /\ result = None
  /\ fault = None
  /\ coreErrors = <<>>
  /\ setFailed = <<>>
  /\ outputs = NoOutputs

\* the sizes of the chunk that a read may deliver: the transport cuts the
\* stream after a line terminator, inside a line (after a colon), between
\* the two bytes of a character, or not at all; a cut anywhere else inside a
\* line leaves the same partial line in the buffer
ChunkSizes(bytes) ==
  {n \in 1..Len(bytes) : n = Len(bytes) \/ SubSeq(bytes, n, n) \in {"\n", ":", "^"}}

\* the awaits of streamTaskOutput when the body read does not take the signal
AwaitsBodyNotAbortable == {"fetch"}

\* the awaits of streamTaskOutput
Awaits == {"fetch", "text", "json", "read"}

\* a loop that stops on 'completed' only
TerminalOnlyCompleted == {"completed"}

\* the statuses that end the read loop
Terminal == {"completed", "failed"}

\* clearTimeout(timeoutId)
clearTimeout(t) == IF t = "armed" THEN "cleared" ELSE t

\* BuildResult without the error of the state
BuildResultDropsError(st) ==
  [status |-> st.status,
   output |-> IF st.outputBuffer # "" THEN Some(st.outputBuffer) ELSE None,
   costUsd |-> st.costUsd,
   error |-> None]

\* BuildResult handing out the output buffer even when it is empty
BuildResultEmptyOutput(st) ==
  [status |-> st.status, output |-> Some(st.outputBuffer), costUsd |-> st.costUsd,
   error |-> st.error]

\* the StreamResult built from the state on normal loop exit
BuildResult(st) ==
  [status |-> st.status,
   output |-> IF st.outputBuffer # "" THEN Some(st.outputBuffer) ELSE None,
   costUsd |-> st.costUsd,
   error |-> st.error]

\* a timeout result that hands out what the state has accumulated
TimeoutResultKeepsState(ms) ==
  [status |-> "timeout",
   output |-> IF state.outputBuffer # "" THEN Some(state.outputBuffer) ELSE None,
   costUsd |-> state.costUsd,
   error |-> Some("Task execution exceeded timeout (" \o ToString(ms) \o "ms)")]

\* the StreamResult of the abort branch of the catch block
TimeoutResult(ms) ==
  [status |-> "timeout", output |-> None, costUsd |-> None,
   error |-> Some("Task execution exceeded timeout (" \o ToString(ms) \o "ms)")]

\* JsonErrorResult without the 'Unknown error' default
JsonErrorResultNoDefault(errorMsg) ==
  [status |-> "failed", output |-> None, costUsd |-> None, error |-> errorMsg]

\* the StreamResult of the degraded JSON branch
JsonErrorResult(errorMsg) ==
  [status |-> "failed", output |-> None, costUsd |-> None,
   error |-> Some(ErrorOrUnknown(errorMsg))]

\* a catch block that rethrows every fault, the abort included
CatchRethrowsAbort(err) ==
  /\ timer' = clearTimeout(timer)
  /\ pc' = "thrown"
  /\ path' = "fault"
  /\ fault' = Some(err)
  /\ result' = result

\* a catch block that folds every other fault into a failed StreamResult
CatchFoldsFault(err) ==
  /\ timer' = clearTimeout(timer)
  /\ pc' = "returned"
  /\ fault' = fault
  /\ IF err.name = "AbortError"
       THEN path' = "timeout" /\ result' = Some(TimeoutResult(timeoutMs))
       ELSE /\ path' = "fault"
            /\ result' = Some([status |-> "failed", output |-> None, costUsd |-> None,
                               error |-> Some(err.message)])

\* the catch block of streamTaskOutput, entered with the fault err
Catch(err) ==
  /\ timer' = clearTimeout(timer)
  /\ IF err.name = "AbortError"
       THEN /\ pc' = "returned"
            /\ path' = "timeout"
            /\ result' = Some(TimeoutResult(timeoutMs))
            /\ fault' = fault
       ELSE /\ pc' = "thrown"
            /\ path' = "fault"
            /\ fault' = Some(err)
            /\ result' = result

\* streamTaskOutput settles: the body stream, the decoder and the buffer of
\* the read loop are dropped with the call
LeaveLoop == remaining' = "" /\ held' = "" /\ buffer' = ""

\* a catch block of run() that reports nothing
RunCatchSilent(message) ==
  /\ setFailed' = setFailed
  /\ pc' = "exit"

\* the catch block of run(), entered with the message of the fault
RunCatch(message) ==
  /\ setFailed' = Append(setFailed, Sanitize(message))
  /\ pc' = "exit"

(***************************************************************************)
(* run(): the submission, up to the call of streamTaskOutput.              *)
(***************************************************************************)
Submit ==
  /\ pc = "submit"
  /\ \E sub \in Submissions :
       IF sub.kind = "reject" THEN
         /\ RunCatch(sub.message)
         /\ UNCHANGED <<timeoutMs, timer, aborted, conn, streamVars, path, result, fault,
                        coreErrors, outputs>>
       ELSE IF sub.statusCode < 200 \/ sub.statusCode >= 300 THEN
         /\ RunCatch("Task submission failed (" \o ToString(sub.statusCode) \o "): "
                     \o ErrorOrUnknown(sub.error))
         /\ UNCHANGED <<timeoutMs, timer, aborted, conn, streamVars, path, result, fault,
                        coreErrors, outputs>>
       ELSE IF sub.task_id = None \/ Get(sub.task_id) = "" THEN
         /\ RunCatch("Invalid response from API: missing task_id")
         /\ UNCHANGED <<timeoutMs, timer, aborted, conn, streamVars, path, result, fault,
                        coreErrors, outputs>>
       ELSE
         \* streamTaskOutput is entered: the timer is armed, the state is
         \* fresh and fetch is awaited
         /\ outputs' = [outputs EXCEPT !.taskId = sub.task_id]
         /\ timer' = "armed"
         /\ state' = InitialState
         /\ pc' = "fetch"
         /\ UNCHANGED <<timeoutMs, aborted, conn, response, remaining, chunks, reads, held,
                        buffer, trace, dispatched, path, result, fault, coreErrors, setFailed>>

(***************************************************************************)
(* streamTaskOutput.                                                       *)
(***************************************************************************)
\* the timer callback: controller.abort(), which also tears the connection down
TimerFires ==
  /\ timer = "armed"
  /\ timer' = "fired"
  /\ aborted' = TRUE
  /\ conn' = IF conn = "open" THEN "closed" ELSE conn
  /\ UNCHANGED <<pc, timeoutMs, streamVars, path, result, fault, runVars>>

\* the pending await rejects with the AbortError of the aborted signal
AbortObserved ==
  /\ pc \in Awaits
  /\ aborted
  /\ Catch([name |-> "AbortError", origin |-> "abort",
            message |-> "This operation was aborted"])
  /\ LeaveLoop
  /\ UNCHANGED <<timeoutMs, aborted, conn, response, chunks, reads, state, trace,
                 dispatched, runVars>>

\* the pending await rejects with a fault of the transport
TransportFault ==
  /\ pc \in Awaits
  /\ ~aborted
  /\ Catch([name |-> "TypeError", origin |-> "transport", message |-> "fetch failed"])
  /\ LeaveLoop
  /\ conn' = IF conn = "open" THEN "closed" ELSE conn
  /\ UNCHANGED <<timeoutMs, aborted, response, chunks, reads, state, trace, dispatched,
                 runVars>>

\* fetch resolves with a response
FetchResolves ==
  /\ pc = "fetch"
  /\ ~aborted
  /\ \E resp \in Responses :
       /\ response' = resp
       /\ conn' = "open"
       /\ IF ~resp.ok THEN
            pc' = "text" /\ UNCHANGED <<remaining, reads>>
          ELSE IF Includes(resp.contentType, "application/json") THEN
            pc' = "json" /\ UNCHANGED <<remaining, reads>>
          ELSE
            pc' = "read" /\ remaining' = resp.body /\ reads' = 1
  /\ UNCHANGED <<timeoutMs, timer, aborted, chunks, held, buffer, state, trace, dispatched, path,
                 result, fault, runVars>>

\* response.text() resolves on a non-success response: the fault is thrown
\* into the catch block
TextResolves ==
  /\ pc = "text"
  /\ ~aborted
  /\ Catch([name |-> "Error", origin |-> "response",
            message |-> "SSE connection failed (" \o ToString(response.status) \o "): "
                        \o response.body])
  /\ conn' = "closed"
  /\ UNCHANGED <<timeoutMs, aborted, streamVars, runVars>>

\* jsonResponse.error is truthy
JsonErrorTruthy(e) == e.kind = "object" \/ (e.kind = "string" /\ Get(e.text) # "")

\* response.json() resolves.  With a truthy error field the failed result is
\* returned from inside the try block.  Otherwise the code goes on to
\* response.body.getReader() on a body that json() has consumed: the
\* platform either throws a TypeError (the stream is locked) or hands out a
\* reader of the closed stream.
JsonResolves ==
  /\ pc = "json"
  /\ ~aborted
  /\ conn' = "closed"
  /\ IF JsonErrorTruthy(response.json) THEN
       /\ pc' = "returned"
       /\ path' = "json"
       /\ result' = Some(JsonErrorResult(response.json.text))
       /\ UNCHANGED <<timer, fault, reads>>
     ELSE
       \/ /\ Catch([name |-> "TypeError", origin |-> "body",
                   message |-> "ReadableStream is locked"])
          /\ UNCHANGED reads
       \/ /\ pc' = "read"
          /\ reads' = 1
          /\ UNCHANGED <<timer, path, result, fault>>
  /\ UNCHANGED <<timeoutMs, aborted, response, remaining, chunks, held, buffer, state,
                 trace, dispatched, runVars>>

\* reader.read() resolves with a chunk: the next n bytes of the body.  The
\* chunk is decoded, appended to the buffer and framed; then the loop
\* either breaks on a terminal status and the result is returned, or a
\* fault thrown by the event processing enters the catch block, or the
\* next read is awaited.
ReadChunk ==
  /\ pc = "read"
  /\ ~aborted
  /\ chunks < MaxChunks
  /\ \E n \in ChunkSizes(remaining) :
       /\ chunks + 1 = MaxChunks => n = Len(remaining)
       /\ LET value == SubSeq(remaining, 1, n)
              d == decode(held, value)
              r == parseSSELines(buffer \o d.text, state)
          IN  /\ chunks' = chunks + 1
              /\ state' = r.st
              /\ trace' = trace \o [i \in 1..Len(r.events) |-> r.events[i].after.status]
              /\ dispatched' = dispatched \o r.events
              /\ coreErrors' = coreErrors \o r.errors
              /\ IF r.threw THEN
                   /\ Catch([name |-> "TypeError", origin |-> "payload",
                             message |-> "Cannot read properties of null"])
                   /\ LeaveLoop
                   /\ UNCHANGED reads
                 ELSE IF r.st.status \in Terminal THEN
                   /\ timer' = clearTimeout(timer)
                   /\ pc' = "returned"
                   /\ path' = "terminal"
                   /\ result' = Some(BuildResult(r.st))
                   /\ LeaveLoop
                   /\ UNCHANGED <<fault, reads>>
                 ELSE
                   /\ remaining' = Substring(remaining, n)
                   /\ held' = d.held
                   /\ buffer' = r.remainder
                   /\ reads' = reads + 1
                   /\ UNCHANGED <<pc, timer, path, result, fault>>
  /\ UNCHANGED <<timeoutMs, aborted, conn, response, setFailed, outputs>>

\* an end of stream that frames the left-over buffer as a last line before
\* the result is built
ReadDoneFlushesBuffer ==
  /\ pc = "read"
  /\ ~aborted
  /\ remaining = ""
  /\ LET r == parseSSELines(buffer \o "\n", state)
     IN  /\ state' = r.st
         /\ trace' = trace \o [i \in 1..Len(r.events) |-> r.events[i].after.status]
         /\ dispatched' = dispatched \o r.events
         /\ coreErrors' = coreErrors \o r.errors
         /\ result' = Some(BuildResult(r.st))
  /\ conn' = "closed"
  /\ timer' = clearTimeout(timer)
  /\ pc' = "returned"
  /\ path' = "eof"
  /\ LeaveLoop
  /\ UNCHANGED <<timeoutMs, aborted, response, chunks, reads, fault, setFailed, outputs>>

\* reader.read() resolves with done: the server has sent the whole body and
\* closed the stream; the loop breaks and the result is returned
ReadDone ==
  /\ pc = "read"
  /\ ~aborted
  /\ remaining = ""
  /\ conn' = "closed"
  /\ timer' = clearTimeout(timer)
  /\ pc' = "returned"
  /\ path' = "eof"
  /\ result' = Some(BuildResult(state))
  /\ LeaveLoop
  /\ UNCHANGED <<timeoutMs, aborted, response, chunks, reads, state, trace, dispatched,
                 fault, runVars>>

(***************************************************************************)
(* run(): after streamTaskOutput has settled.                              *)
(***************************************************************************)
\* streamTaskOutput returned: the outputs are set and a failed status is
\* reported with core.setFailed
RunReturned ==
  /\ pc = "returned"
  /\ LET r == Get(result)
     IN  /\ outputs' = [outputs EXCEPT
                          !.result = Some(r.status),
                          !.output = IF r.output # None /\ Get(r.output) # ""
                                       THEN r.output ELSE None,
                          !.costUsd = IF r.costUsd # None
                                        THEN Some(ToString(Get(r.costUsd))) ELSE None]
         /\ setFailed' = IF r.status = "failed"
                           THEN Append(setFailed,
                                       "Task execution failed: " \o ErrorOrUnknown(r.error))
                           ELSE setFailed
  /\ pc' = "exit"
  /\ UNCHANGED <<timeoutMs, timer, aborted, conn, streamVars, path, result, fault, coreErrors>>

\* streamTaskOutput threw: the catch block of run() reports the sanitized message
RunThrown ==
  /\ pc = "thrown"
  /\ RunCatch(Get(fault).message)
  /\ UNCHANGED <<timeoutMs, timer, aborted, conn, streamVars, path, result, fault,
                 coreErrors, outputs>>

Next ==
  \/ Submit
  \/ TimerFires
  \/ AbortObserved
  \/ TransportFault
  \/ FetchResolves
  \/ TextResolves
  \/ JsonResolves
  \/ ReadChunk
  \/ ReadDone
  \/ RunReturned
  \/ RunThrown

Spec == Init /\ [][Next]_vars

\* The event loop runs the timer callback once the timer is due, and the
\* platform rejects the pending await of an aborted signal; nothing is
\* assumed of the remote, which may stall for ever.
FairSpec == Spec /\ WF_vars(TimerFires) /\ WF_vars(AbortObserved)

(***************************************************************************)
(* The exported functions called directly, as the unit tests call them:    *)
(* parseSSELines on a text passed in one or two parts, processSSEEvent on  *)
(* one event, and the catch block of run() on one thrown message.          *)
(***************************************************************************)
\* the lines the texts are made of: event lines (one with white space to
\* trim), data lines, a comment, an id field, a blank line, a null payload,
\* and a trailing text without line terminator
UnitLines ==
  { "event: stdout\n",
    "event:  complete \n",
    "data: {\"data\":\"a\"}\n",
    "data: null\n",
    ":comment\n",
    "id: 123\n",
    "\n",
    "partial" }

RECURSIVE UnitTextsOf(_)
UnitTextsOf(n) ==
  IF n = 0 THEN {""}
  ELSE LET shorter == UnitTextsOf(n - 1)
       IN  shorter \cup {t \o l : t \in shorter, l \in UnitLines}

UnitTexts == UnitTextsOf(MaxLines)

\* the states processSSEEvent is called on
UnitStates ==
  { InitialState,
    [outputBuffer |-> "a", status |-> "unknown", error |-> None, costUsd |-> None],
    [outputBuffer |-> "a", status |-> "completed", error |-> None, costUsd |-> Some(1)],
    [outputBuffer |-> "", status |-> "failed", error |-> Some("boom"), costUsd |-> None] }

\* the event types and the raw payloads processSSEEvent is called with
UnitEventTypes == {"start", "stdout", "stderr", "complete", "error", "", "ping", "Complete"}

UnitPayloads ==
  { "{\"data\":\"b\"}", "{\"data\":\"\"}", "{\"costUsd\":2}", "{\"error\":\"bad\"}", "{}",
    " {} ", "null", "7", "\"text\"", "", "not json", "{x", "{\"data\":\"b\"" }

\* the messages of the faults caught by run(): sequences of tokens
UnitTokens == {"Bearer", "bearer", " ", "\n", "tok", "***", ":"}

RECURSIVE UnitMessagesOf(_)
UnitMessagesOf(n) ==
  IF n = 0 THEN {""}
  ELSE LET shorter == UnitMessagesOf(n - 1)
       IN  shorter \cup {m \o t : m \in shorter, t \in UnitTokens}

UnitMessages == UnitMessagesOf(MaxTokens)

\* a text handed to parseSSELines, kept as the body of a stream response
TextResponse(t) ==
  [ok |-> TRUE, status |-> 200, contentType |-> "text/event-stream", body |-> t,
   json |-> [kind |-> "absent", text |-> None]]

UnitInit ==
  /\ timeoutMs = 1000
  /\ timer = "none"
  /\ aborted = FALSE
  /\ conn = "none"
  /\ chunks = 0
  /\ reads = 0
  /\ held = ""
  /\ buffer = ""
  /\ trace = <<>>
  /\ dispatched = <<>>
  /\ path = "none"
  /\ result = None
  /\ coreErrors = <<>>
  /\ setFailed = <<>>
  /\ outputs = NoOutputs
  /\ \/ /\ pc = "parse"
        /\ \E t \in UnitTexts : response = TextResponse(t) /\ remaining = t
        /\ state = InitialState
        /\ fault = None
     \/ /\ pc = "process"
        /\ response = NoResponse
        /\ remaining = ""
        /\ state \in UnitStates
        /\ fault = None
     \/ /\ pc = "thrown"
        /\ response = NoResponse
        /\ remaining = ""
        /\ state = InitialState
        /\ \E m \in UnitMessages :
             fault = Some([name |-> "Error", origin |-> "transport", message |-> m])

\* the fault of a property read on a null payload
NullPayloadFault ==
  [name |-> "TypeError", origin |-> "payload", message |-> "Cannot read properties of null"]

\* parseSSELines(buffer, state) called on the next n characters of the text
\* behind the carry-over of the call before; the second call takes the rest
CallParse ==
  /\ pc = "parse"
  /\ chunks < 2
  /\ \E n \in 0..Len(remaining) :
       /\ chunks = 1 => n = Len(remaining)
       /\ LET r == parseSSELines(buffer \o SubSeq(remaining, 1, n), state)
          IN  /\ remaining' = Substring(remaining, n)
              /\ buffer' = r.remainder
              /\ state' = r.st
              /\ trace' = trace \o [i \in 1..Len(r.events) |-> r.events[i].after.status]
              /\ dispatched' = dispatched \o r.events
              /\ coreErrors' = coreErrors \o r.errors
              /\ fault' = IF r.threw THEN Some(NullPayloadFault) ELSE fault
              /\ pc' = IF r.threw THEN "exit" ELSE pc
  /\ chunks' = chunks + 1
  /\ UNCHANGED <<timeoutMs, timer, aborted, conn, response, reads, held, path, result,
                 setFailed, outputs>>

\* processSSEEvent(eventType, eventData, state) called once
CallProcess ==
  /\ pc = "process"
  /\ \E eventType \in UnitEventTypes, eventData \in UnitPayloads :
       LET r == processSSEEvent(eventType, eventData, state)
       IN  /\ state' = r.st
           /\ trace' = <<r.st.status>>
           /\ dispatched' = <<[type |-> eventType, data |-> eventData, after |-> r.st]>>
           /\ coreErrors' = r.errors
           /\ fault' = IF r.threw THEN Some(NullPayloadFault) ELSE fault
  /\ pc' = "exit"
  /\ UNCHANGED <<timeoutMs, timer, aborted, conn, response, remaining, chunks, reads, held,
                 buffer, path, result, setFailed, outputs>>

UnitNext ==
  \/ CallParse
  \/ CallProcess
  \/ RunThrown

UnitSpec == UnitInit /\ [][UnitNext]_vars

(***************************************************************************)
(* Properties.                                                             *)
(***************************************************************************)
\* the response is an event stream read by the loop
Streaming == response.ok /\ ~Includes(response.contentType, "application/json")

\* the outcome of framing a whole text that arrives as one chunk
OneShot(bytes) == parseSSELines(decode("", bytes).text, InitialState)

\* C1: chunk-boundary invariance: when the read loop has ended (terminal
\* event or end of stream), the StreamState is the one the whole text of the
\* stream gives when it arrives as one chunk.
ChunkBoundaryInvariance ==
  (Streaming /\ path \in {"terminal", "eof"}) => state = OneShot(response.body).st

\* C2: terminal status is monotonic: once an event has left the status
\* 'completed' or 'failed', no later event of the stream changes it.
TerminalStatusMonotonic ==
  \A i \in 1..(Len(trace) - 1) : trace[i] \in Terminal => trace[i + 1] = trace[i]

\* C3: no payload aborts the stream: streamTaskOutput never throws a fault
\* that arose in the processing of an event payload.
NoPayloadAbortsStream == fault = None \/ Get(fault).origin # "payload"

\* C4: the timer is cancelled on every exit path: when streamTaskOutput has
\* returned or thrown, its timer is not armed any more.
TimerCancelledOnExit == pc \in {"returned", "thrown"} => timer # "armed"

\* C5: when the timer has fired while an await of streamTaskOutput is
\* pending, the call returns a result with status 'timeout' whose error
\* contains timeoutMs; the abort is never thrown to the caller.
TimeoutIsReturned ==
  [][ /\ (aborted /\ pc \in Awaits) =>
           /\ pc' = "returned"
           /\ fault' = None
           /\ result' # None
           /\ Get(result').status = "timeout"
           /\ Get(result').error # None
           /\ Includes(Get(Get(result').error), ToString(timeoutMs))
      /\ (fault' # None => Get(fault').name # "AbortError") ]_vars

\* the timer fired while a chunk read was pending after a first chunk, and
\* the call returned the timeout result
TimeoutIsReturnedWitness ==
  /\ path = "timeout" /\ chunks >= 1 /\ timer = "fired"
  /\ Get(result).status = "timeout"

\* a terminal event was decoded from a chunk that a read delivered (no chunk
\* is delivered once the timer has fired)
TerminalDecoded == \E i \in 1..Len(trace) : trace[i] \in Terminal

\* C6: first to settle wins: when the stream operation has ended by the read
\* loop or by the timer, a terminal event decoded from a delivered chunk
\* makes the result 'completed' or 'failed', never 'timeout'; with no such
\* event a timer that fired makes it 'timeout'.
FirstToSettleWins ==
  (Streaming /\ (path \in {"terminal", "eof", "timeout"}
                 \/ (fault # None /\ Get(fault).origin = "payload"))) =>
    /\ TerminalDecoded => (result # None /\ Get(result).status \in Terminal)
    /\ (~TerminalDecoded /\ timer = "fired") =>
         (result # None /\ Get(result).status = "timeout")

\* a message that went through the redaction: it holds no Bearer token and
\* not the api key
Redacted(message) == Sanitize(message) = message /\ ~Includes(message, ApiKey)

\* C7: every message handed to core.setFailed or core.error has passed
\* through the Bearer-token redaction.
FailureMessagesRedacted ==
  /\ \A i \in 1..Len(setFailed) : Redacted(setFailed[i])
  /\ \A i \in 1..Len(coreErrors) : Redacted(coreErrors[i])

\* C8: every StreamResult returned has a non-null error when its status is
\* 'failed', and the timeout description as error when its status is 'timeout'.
StreamResultInvariant ==
  result # None =>
    LET r == Get(result)
    IN  /\ r.status = "failed" => r.error # None
        /\ r.status = "timeout" =>
             r.error = Some("Task execution exceeded timeout ("
                            \o ToString(timeoutMs) \o "ms)")

\* an error event without error field gave a failed result
StreamResultInvariantWitness ==
  /\ path = "terminal" /\ result # None
  /\ Get(result).status = "failed" /\ Get(result).error = Some("Unknown error")

\* C9: when the stream ends before a terminal event was decoded, the call
\* returns (no fault) the status of the state, which is 'unknown', and as
\* output the text accumulated, undefined when there is none.
EndOfStreamReturnsState ==
  path = "eof" =>
    /\ pc \in {"returned", "exit"} /\ fault = None /\ result # None
    /\ Get(result).status = state.status
    /\ state.status = "unknown"
    /\ Get(result).output
         = (IF state.outputBuffer = "" THEN None ELSE Some(state.outputBuffer))

\* the stream ended after stdout text had been accumulated
EndOfStreamReturnsStateWitness ==
  /\ path = "eof" /\ state.outputBuffer # ""
  /\ Get(result).output = Some(state.outputBuffer)

\* the response is a successful JSON-typed response whose json() has resolved
\* and led to the end of the call by something else than timer or fault
JsonAnswered ==
  /\ response.ok /\ Includes(response.contentType, "application/json")
  /\ pc \notin {"fetch", "json"}
  /\ path \notin {"timeout", "fault"}

\* C10 as stated: a JSON body with an error field that is a string, or an
\* object with a message, makes the call return failed with that text as
\* error, with no read, no framing and no dispatch.
DegradedJsonFailsWithMessage ==
  LET e == response.json
  IN  (JsonAnswered /\ (e.kind = "string" \/ (e.kind = "object" /\ e.text # None))) =>
        /\ path = "json" /\ result # None
        /\ Get(result).status = "failed" /\ Get(result).error = e.text
        /\ reads = 0 /\ chunks = 0 /\ trace = <<>>

\* C10: a JSON body with a truthy error field (a non-empty string, or an
\* object) makes the call return failed, with as error the string or the
\* message of the object, or 'Unknown error' when that is missing or empty,
\* with no read, no framing and no dispatch; a body whose error field is
\* absent or the empty string does not take this exit.
DegradedJsonFails ==
  LET e == response.json
      truthy == e.kind = "object" \/ (e.kind = "string" /\ e.text \notin {None, Some("")})
      message == IF e.text \notin {None, Some("")} THEN Get(e.text) ELSE "Unknown error"
  IN  /\ (JsonAnswered /\ ~truthy) => (path # "json" /\ reads = 1)
      /\ (JsonAnswered /\ truthy) =>
        /\ pc \in {"returned", "exit"} /\ path = "json"
        /\ result = Some([status |-> "failed", output |-> None, costUsd |-> None,
                          error |-> Some(message)])
        /\ reads = 0 /\ chunks = 0 /\ trace = <<>>

\* a JSON body whose error is an object without message gave a failed result
DegradedJsonFailsWitness ==
  /\ path = "json" /\ response.json.kind = "object" /\ response.json.text = None
  /\ Get(result).status = "failed"

\* fetch has resolved with a non-success response and the call has settled
NonSuccessSettled == response # NoResponse /\ ~response.ok /\ pc # "text"

\* the fault thrown is the one the transport raised, as it was raised
TransportFaultRethrown ==
  (fault # None /\ Get(fault).origin = "transport") =>
    /\ pc \in {"thrown", "exit"} /\ result = None
    /\ Get(fault) = [name |-> "TypeError", origin |-> "transport", message |-> "fetch failed"]

\* C11 as stated: a non-success response makes streamTaskOutput throw a
\* fault whose message embeds the status code and the body text, never
\* return a StreamResult, with no read and no dispatch; a fault of the
\* transport is rethrown unchanged.
NonSuccessAlwaysThrows ==
  /\ TransportFaultRethrown
  /\ NonSuccessSettled =>
       /\ result = None /\ fault # None
       /\ reads = 0 /\ chunks = 0 /\ trace = <<>>
       /\ Get(fault).origin = "response" =>
            /\ Includes(Get(fault).message, ToString(response.status))
            /\ Includes(Get(fault).message, response.body)

\* C11: a non-success response whose body text is read before the timer
\* fires makes streamTaskOutput throw the fault 'SSE connection failed
\* (<status>): <body text>' and return no StreamResult; when the timer fires
\* first the timeout result is returned; in both cases no chunk is read and
\* no event dispatched.  A fault of the transport is rethrown unchanged.
NonSuccessThrowsUnlessTimeout ==
  /\ TransportFaultRethrown
  /\ NonSuccessSettled =>
       /\ reads = 0 /\ chunks = 0 /\ trace = <<>> /\ state = InitialState
       /\ IF timer = "fired"
            THEN fault = None /\ result = Some(TimeoutResult(timeoutMs))
            ELSE /\ result = None /\ fault # None
                 /\ \/ Get(fault).origin = "transport"
                    \/ Get(fault) =
                         [name |-> "Error", origin |-> "response",
                          message |-> "SSE connection failed (" \o ToString(response.status)
                                      \o "): " \o response.body]

\* a 401 response was answered by the fault thrown to run()
NonSuccessThrowsWitness ==
  /\ NonSuccessSettled /\ response.status = 401 /\ pc = "thrown"
  /\ Get(fault).origin = "response"
  /\ Get(fault).message = "SSE connection failed (401): Unauthorized"

\* C12: costUsd is written at most once per stream and only by a complete
\* event: once an event has left a cost in the state, no later event changes
\* it (first value wins); and the status is set to 'completed' by at most
\* one event of the stream.
CostWrittenOnce ==
  /\ \A i \in 1..Len(dispatched) :
       LET before == IF i = 1 THEN None ELSE dispatched[i - 1].after.costUsd
       IN  /\ dispatched[i].after.costUsd # before => dispatched[i].type = "complete"
           /\ before # None => dispatched[i].after.costUsd = before
  /\ Cardinality({i \in 1..Len(dispatched) :
                    /\ dispatched[i].type = "complete"
                    /\ dispatched[i].after.status = "completed"}) <= 1

\* C13: the `result` output that run() sets is always one of 'completed',
\* 'failed' or 'timeout'.
ResultOutputDocumented ==
  outputs.result # None => Get(outputs.result) \in {"completed", "failed", "timeout"}

\* the call of streamTaskOutput is in progress / has settled
Pending == pc \in {"fetch", "text", "json", "read"}
Settled == pc \in {"returned", "thrown", "exit"} /\ path # "none"

\* C14: bounded operation: under fairness of the timer, a call of
\* streamTaskOutput in progress eventually settles, whatever the remote
\* does; a settled call has either returned one StreamResult or thrown one
\* fault, and its outcome never changes afterwards.
BoundedOperation ==
  /\ [](Pending => <>Settled)
  /\ [](Settled => ((result = None) # (fault = None)))
  /\ [][Settled => (Settled' /\ result' = result /\ fault' = fault /\ path' = path)]_vars

\* the remote sent one chunk without terminal event and then stalled, and
\* the call was settled by the timer
BoundedOperationWitness ==
  /\ Settled /\ path = "timeout" /\ chunks = 1 /\ reads = 2
  /\ state.status = "unknown" /\ result = Some(TimeoutResult(timeoutMs))

\* the (eventType, rawData) pairs of a sequence of dispatched events
Pairs(events) == [i \in 1..Len(events) |-> <<events[i].type, events[i].data>>]

\* C15: associativity of incremental framing: when a text was handed to
\* parseSSELines in parts, each call taking the carry-over of the call
\* before, the carry-over is the trailing unterminated text and the events
\* dispatched are, pair by pair, those of one call on the whole text handed
\* in so far.
IncrementalFramingAssociative ==
  (response.ok /\ pc \in {"parse", "exit"}) =>
    LET whole == SubSeq(response.body, 1, Len(response.body) - Len(remaining))
        one == parseSSELines(whole, InitialState)
    IN  /\ Pairs(dispatched) = Pairs(one.events)
        /\ fault = None => buffer = one.remainder

\* the complete lines of a text: all pieces of split('\n') but the last
CompleteLines(text) == LET all == SplitLines(text) IN SubSeq(all, 1, Len(all) - 1)

\* The pairing rule, stated on the lines: one pair per data line, in the
\* order of the lines; the type of a data line is that of the event line
\* before it when no other data line lies between the two (lines of any
\* other kind may), and the empty type otherwise.
PairingOf(lines) ==
  LET isEvent(k) == StartsWith(lines[k], "event: ")
      isData(k) == ~isEvent(k) /\ StartsWith(lines[k], "data: ")
      dataLines == {k \in 1..Len(lines) : isData(k)}
      nth(i) == CHOOSE k \in dataLines : Cardinality({j \in dataLines : j <= k}) = i
      typeOf(k) ==
        LET marks == {j \in 1..(k - 1) : isEvent(j) \/ isData(j)}
            last == CHOOSE j \in marks : \A h \in marks : h <= j
        IN  IF marks # {} /\ isEvent(last) THEN Trim(Substring(lines[last], 7)) ELSE ""
  IN  [i \in 1..Cardinality(dataLines) |-> <<typeOf(nth(i)), Substring(lines[nth(i)], 6)>>]

\* C16: event/data pairing rule: one call of parseSSELines dispatches one
\* event per data line, in order, paired with the type of the event line
\* pending before it and with the empty type when a data line came since;
\* lines of any other kind dispatch nothing and leave the pending type; an
\* event of the empty type has no effect on the state.  (A fault thrown by
\* an event ends the call after that event.)
EventDataPairing ==
  (response.ok /\ chunks = 1) =>
    LET text == SubSeq(response.body, 1, Len(response.body) - Len(remaining))
        expected == PairingOf(CompleteLines(text))
    IN  /\ Len(dispatched) <= Len(expected)
        /\ fault = None => Len(dispatched) = Len(expected)
        /\ \A i \in 1..Len(dispatched) :
             /\ Pairs(dispatched)[i] = expected[i]
             /\ dispatched[i].type = "" =>
                  dispatched[i].after
                    = (IF i = 1 THEN InitialState ELSE dispatched[i - 1].after)

\* a call on a text with an event line and two data lines: the first data
\* line got the type, the second the empty type
EventDataPairingWitness ==
  /\ response.ok /\ chunks = 1 /\ remaining = ""
  /\ response.body = "event: stdout\ndata: {\"data\":\"a\"}\ndata: {\"data\":\"a\"}\n"
  /\ Pairs(dispatched) = << <<"stdout", "{\"data\":\"a\"}">>, <<"", "{\"data\":\"a\"}">> >>
  /\ state.outputBuffer = "a"

\* the text holds 'Bearer' in any letter case, then white space, then a
\* character that is no white space
HasBearerToken(text) ==
  \E i \in 1..Len(text) : \E j \in (i + 7)..Len(text) :
    /\ SameIgnoringCase(SubSeq(text, i, i + 5), "Bearer")
    /\ \A k \in (i + 6)..(j - 1) : SpaceAt(text, k)
    /\ ~SpaceAt(text, j)

\* C17: the error sanitizer is idempotent, sanitizing the message that the
\* catch block of run() reported gives that message again, and it is the
\* identity on a message without Bearer pattern.
SanitizerIdempotent ==
  (pc = "exit" /\ path = "none" /\ fault # None /\ Len(setFailed) = 1) =>
    LET message == Get(fault).message
        reported == setFailed[1]
    IN  /\ Sanitize(reported) = reported
        /\ ~HasBearerToken(message) => reported = message
        /\ HasBearerToken(message) => Includes(reported, "Bearer ***")

\* a message with a lower-case pattern was reported masked
SanitizerIdempotentWitness ==
  /\ pc = "exit" /\ path = "none" /\ fault # None
  /\ Get(fault).message = "bearer tok" /\ setFailed = <<"Bearer ***">>

\* the event types processSSEEvent knows
KnownEventTypes == {"start", "stdout", "stderr", "complete", "error"}

\* the payloads of the direct calls that are not JSON
InvalidPayloads == {"", "not json", "{x", "{\"data\":\"b\""}

\* C18: a call of processSSEEvent with an event type it does not know, or
\* with a payload that is not JSON whatever the event type, leaves the state
\* (outputBuffer, status, error, costUsd) as it was and raises no fault.
UnknownOrInvalidIsNoOp ==
  [][ (pc = "process" /\ pc' = "exit") =>
        LET call == dispatched'[1]
        IN  (call.type \notin KnownEventTypes \/ call.data \in InvalidPayloads) =>
              /\ state' = state
              /\ fault' = None
              /\ coreErrors' = <<>> ]_vars

\* a complete event whose payload is not JSON was processed on a fresh state
UnknownOrInvalidIsNoOpWitness ==
  /\ pc = "exit" /\ path = "none" /\ ~response.ok /\ fault = None
  /\ Len(dispatched) = 1
  /\ dispatched[1].type = "complete" /\ dispatched[1].data = "not json"
  /\ state = InitialState

\* C19: a result returned with status 'completed' has a null error, and the
\* state holds an error only while its status is 'failed'.
CompletedHasNoError ==
  /\ (result # None /\ Get(result).status = "completed") => Get(result).error = None
  /\ state.error # None => state.status = "failed"

\* the texts of the stdout events among the events, concatenated in order
RECURSIVE StdoutTexts(_)
StdoutTexts(events) ==
  IF events = <<>> THEN ""
  ELSE LET e == Head(events)
           payload == JSONparse(e.data)
       IN  (IF e.type = "stdout" /\ payload.data # None THEN Get(payload.data) ELSE "")
             \o StdoutTexts(Tail(events))

\* the raw data of the data lines of a text, in the order of the lines
DataOf(text) ==
  LET pairs == PairingOf(CompleteLines(text)) IN [i \in 1..Len(pairs) |-> pairs[i][2]]

\* s is a leading part of t (texts or sequences)
IsPrefix(s, t) == Len(s) <= Len(t) /\ SubSeq(t, 1, Len(s)) = s

\* C20: ordered, append-only output: at every point of a stream the
\* outputBuffer is the concatenation, in order, of the texts of the stdout
\* events dispatched so far; the events are dispatched in the order of the
\* data lines of the byte stream, none twice and none skipped, whatever the
\* chunk boundaries; and each event only extends the outputBuffer.
OutputOrderedAppendOnly ==
  Streaming =>
    LET datas == [i \in 1..Len(dispatched) |-> dispatched[i].data]
        sent == DataOf(decode("", response.body).text)
    IN  /\ state.outputBuffer = StdoutTexts(dispatched)
        /\ IsPrefix(datas, sent)
        /\ path = "eof" => datas = sent
        /\ \A i \in 1..Len(dispatched) :
             IsPrefix(IF i = 1 THEN "" ELSE dispatched[i - 1].after.outputBuffer,
                      dispatched[i].after.outputBuffer)

\* two stdout events arrived in two chunks, the second with a two-byte
\* character, and both texts are in the outputBuffer in order
OutputOrderedAppendOnlyWitness ==
  /\ Streaming /\ chunks = 2 /\ pc = "read"
  /\ Len(dispatched) = 2 /\ dispatched[1].after.outputBuffer = "a"
  /\ state.outputBuffer = "a@"

\* the payloads of the direct calls that are JSON objects
ObjectPayloads ==
  {"{\"data\":\"b\"}", "{\"data\":\"\"}", "{\"costUsd\":2}", "{\"error\":\"bad\"}", "{}", " {} "}

\* C21: frame conditions of processSSEEvent on a JSON-object payload: start
\* and stderr change no field of the state; stdout appends its text to the
\* outputBuffer and changes nothing else (nothing at all when the text is
\* missing or empty); complete sets the status, sets costUsd when the
\* payload has a cost, and changes nothing else; error sets the status and
\* the error and changes nothing else.
EventFrameConditions ==
  [][ (pc = "process" /\ pc' = "exit" /\ dispatched'[1].data \in ObjectPayloads) =>
        LET type == dispatched'[1].type
            data == dispatched'[1].data
        IN  /\ fault' = None
            /\ type \in {"start", "stderr"} => state' = state
            /\ type = "stdout" =>
                 state' = [state EXCEPT !.outputBuffer =
                             IF data = "{\"data\":\"b\"}" THEN @ \o "b" ELSE @]
            /\ type = "complete" =>
                 state' = [state EXCEPT !.status = "completed",
                                        !.costUsd =
                                          IF data = "{\"costUsd\":2}" THEN Some(2) ELSE @]
            /\ type = "error" =>
                 state' = [state EXCEPT !.status = "failed",
                                        !.error =
                                          IF data = "{\"error\":\"bad\"}" THEN Some("bad")
                                          ELSE Some("Unknown error")] ]_vars

\* a complete event with a cost was processed on a failed state: status and
\* cost are set, output and error are as they were
EventFrameConditionsWitness ==
  /\ pc = "exit" /\ path = "none" /\ ~response.ok /\ fault = None
  /\ Len(dispatched) = 1
  /\ dispatched[1].type = "complete" /\ dispatched[1].data = "{\"costUsd\":2}"
  /\ state = [outputBuffer |-> "", status |-> "completed", error |-> Some("boom"),
              costUsd |-> Some(2)]

\* C22: no read after a terminal status: when the processing of a chunk
\* ends (without fault) with the status 'completed' or 'failed', the call
\* returns at once, with no further read even if bytes are left, a result
\* built from the state as it is then; no read is ever awaited with a
\* terminal status, and none is issued once the call has settled.
NoReadAfterTerminal ==
  /\ [](pc = "read" => state.status \notin {"completed", "failed"})
  /\ [][ /\ (pc = "read" /\ state'.status \in {"completed", "failed"} /\ fault' = None) =>
             /\ pc' = "returned" /\ path' = "terminal"
             /\ reads' = reads
             /\ result' # None
             /\ Get(result').status = state'.status
             /\ Get(result').output
                  = (IF state'.outputBuffer = "" THEN None ELSE Some(state'.outputBuffer))
             /\ Get(result').costUsd = state'.costUsd
             /\ Get(result').error = state'.error
         /\ pc \in {"returned", "thrown", "exit"} =>
             (reads' = reads /\ chunks' = chunks /\ state' = state) ]_vars

\* the first chunk ended behind a complete event while the body had a
\* stdout event left, and the call returned after that one read
NoReadAfterTerminalWitness ==
  /\ path = "terminal" /\ reads = 1 /\ chunks = 1
  /\ response.body = Event("complete", "{\"costUsd\":1}") \o Event("stdout", "{\"data\":\"a\"}")
  /\ Len(dispatched) = 1
  /\ result = Some([status |-> "completed", output |-> None, costUsd |-> Some(1),
                    error |-> None])

\* C23: the connection is released on every exit path: no call of
\* streamTaskOutput has settled with its connection still open.
ConnectionReleasedOnExit == pc \in {"returned", "thrown", "exit"} => conn # "open"

\* C24: run() calls core.setFailed exactly when the stream result has the
\* status 'failed' or a fault was thrown (by the submission or by
\* streamTaskOutput), and then once; with a result of status 'timeout',
\* 'unknown' or 'completed' it has not called it when it ends.
SetFailedExactlyOnFailure ==
  /\ pc # "exit" => setFailed = <<>>
  /\ pc = "exit" =>
       LET failure == \/ path = "none"
                      \/ fault # None
                      \/ (result # None /\ Get(result).status = "failed")
       IN  /\ Len(setFailed) = (IF failure THEN 1 ELSE 0)
           /\ (result # None /\ Get(result).status \in {"timeout", "unknown", "completed"}) =>
                (setFailed = <<>> /\ outputs.result = Some(Get(result).status))

\* run() has ended on a timeout result without calling setFailed
SetFailedExactlyOnFailureWitness ==
  /\ pc = "exit" /\ path = "timeout" /\ setFailed = <<>>
  /\ outputs.result = Some("timeout")

\* C25: a timeout result discards the accumulated state: when the abort has
\* ended the operation, the result has the status 'timeout' and the timeout
\* error but neither output nor costUsd, whatever the state has accumulated.
TimeoutDiscardsState ==
  path = "timeout" =>
    /\ result # None
    /\ Get(result).status = "timeout"
    /\ Get(result).output = None
    /\ Get(result).costUsd = None
    /\ Get(result).error
         = Some("Task execution exceeded timeout (" \o ToString(timeoutMs) \o "ms)")
    /\ pc = "exit" => (outputs.output = None /\ outputs.costUsd = None)

\* the abort ended the operation after stdout text had been accumulated
TimeoutDiscardsStateWitness ==
  /\ path = "timeout" /\ state.outputBuffer = "a@" /\ Len(dispatched) = 2
  /\ result # None /\ Get(result).output = None

\* C26: carry-over is dropped at end-of-stream: when the stream closes while
\* the running buffer holds a final line without its newline, that line is
\* never dispatched: the step that ends the stream dispatches nothing, leaves
\* the state as it was, and builds the result from that state, so the status
\* of the result is the status before the close.
CarryOverDroppedAtEof ==
  [][ (pc = "read" /\ path' = "eof" /\ buffer # "") =>
        /\ state' = state
        /\ dispatched' = dispatched
        /\ trace' = trace
        /\ coreErrors' = coreErrors
        /\ pc' = "returned"
        /\ result' # None
        /\ Get(result').status = state.status
        /\ Get(result').output
             = (IF state.outputBuffer # "" THEN Some(state.outputBuffer) ELSE None)
        /\ Get(result').costUsd = state.costUsd
        /\ Get(result').error = state.error ]_vars

\* the stream closed on a complete event whose data line has no newline:
\* nothing was dispatched and the result has the status 'unknown'
CarryOverDroppedAtEofWitness ==
  /\ path = "eof"
  /\ response.contentType = "text/event-stream"
  /\ response.body = "event: complete\ndata: {}"
  /\ dispatched = <<>>
  /\ result # None /\ Get(result).status = "unknown"

====
